---- MODULE Spec2Model ----
(***************************************************************************)
(* Streaming response normalisation of the aienvoy backend.                *)
(*                                                                         *)
(* An HTTP handler (LLMHandler.chatStream / createMessageStream) makes an  *)
(* unbuffered data channel and an unbuffered error channel, starts one     *)
(* producer goroutine (the service of the request's model, in front of a   *)
(* provider adapter) and relays what it receives as Server-Sent-Events     *)
(* frames.  The adapters are the Bedrock client, the ClaudeWeb client and  *)
(* the Together client.  The Bedrock and the Together client take the      *)
(* handler's channels; the Together client starts a second goroutine       *)
(* (llm.ParseSSE) behind a pair of inner channels.  The ClaudeWeb client   *)
(* streams on channels of its own record type, which the service makes     *)
(* and forwards from.                                                      *)
(* OpenAIHandler.chatStream relays a pull stream (stream.Recv) instead.    *)
(*                                                                         *)
(* Go channel semantics used throughout: a send on an unbuffered channel   *)
(* completes together with the matching receive; a send on a closed        *)
(* channel panics, also when the sender was already blocked in the send;   *)
(* an unrecovered panic in a goroutine ends the whole process.             *)
(*                                                                         *)
(* Beside the streaming path the module holds the operations around it:    *)
(* the mutex of ClaudeWeb.request, the models cache of the Together        *)
(* client, Bard's Client.Ask, and the token accounting of package usage.   *)
(* The variable entry says which of the entry points a behaviour runs.     *)
(***************************************************************************)
EXTENDS Integers, Sequences, FiniteSets

\* ------------------------------------------------------------------ bounds
\* Concurrent streaming requests.
NumReqs == 2
\* Work one run of the streaming endpoint may carry: every request served and
\* every upstream item (event-stream chunk, SSE frame, body line) is one unit.
MaxWork == 4
\* Calls of stream.Recv one OpenAI relay may make.
MaxRecv == 3
\* Goroutines that call ClaudeWeb.request on one client.
NumCallers == 3
\* Goroutines that call Together Client.ListModels, calls of it in one run, and
\* models in one answer.
NumListers == 2
MaxCalls == 3
MaxModels == 2
\* Bytes in a response body of Bard.
MaxBody == 5
\* Messages in one call of SaveFromMessages, and tokens in one message.
MaxMsgs == 2
MaxTokens == 2

Reqs == 1..NumReqs

\* The provider adapters a request can be routed to.
Adapters == {"bedrock", "claudeweb", "together"}

\* The error values of the model: io.EOF itself, an error that is not io.EOF but
\* has it in its chain ("wrapped io.EOF": what net/http returns for a connection
\* closed before the response, and every %w wrapping of it), every other error
\* ("error"), and no error ("nil").
\* errors.Is(err, io.EOF) of the handlers (openai.go:87, 233, 331).
IsEOF(e) == e \in {"io.EOF", "wrapped io.EOF"}

\* The errors of a failed request whose chain is kept up to the caller.
TransportErrors == {"error", "wrapped io.EOF"}

VARIABLES
    entry,      \* which entry point of the server this run exercises
    crashed,    \* the process has died of an unrecovered panic
    \* ---- LLMHandler.chatStream / createMessageStream, per request
    hpc,        \* handler position: "idle", "loop", "write", "closeErr",
                \* "closeData", "returned"
    hrec,       \* the record received and not yet written
    hData,      \* dataChan made by the handler (0: not made yet)
    hErr,       \* errChan made by the handler
    closed,     \* channels that have been closed
    received,   \* records the handler received on dataChan, in order
    frames,     \* body writes of the handler, in order
    term,       \* terminal signal received on errChan ("none" before)
    hfail,      \* why the handler left its loop early: "none", "marshal", "write"
    status,     \* status line sent to the client (0: header not written yet)
    \* ---- producer goroutine (the one the handler starts), per request
    akind,      \* adapter the request is routed to
    ppc,        \* its position
    pval,       \* record of the pending send on dataChan
    perr,       \* error of the pending send on errChan
    derived,    \* records the adapter derived from upstream frames
    errSends,   \* completed sends on errChan
    termSent,   \* value of the last completed send on errChan
    lateSend,   \* a send completed after the first send on errChan
    upFailed,   \* the upstream failed (request, read, connection or decode)
    nReq,       \* upstream requests issued by the adapter
    budget,     \* work the run may still carry
    \* ---- ClaudeWeb response body of the request
    body,       \* lines of the body
    bodyEnd,    \* what the read after the last byte returns
    rpos,       \* next line bufio.Reader.ReadBytes returns
    \* ---- the goroutine behind the producer: llm.ParseSSE for Together,
    \* ---- ClaudeWeb.CreateChatMessageStream for ClaudeWeb, and its channels
    iData,      \* innerDataChan, streamChan
    iErr,       \* innerErrChan, the error channel of the ClaudeWeb stream
    ipc,        \* its position
    ival,       \* record of its pending send on innerDataChan
    ierr,       \* error of its pending send on innerErrChan
    \* ---- channel endpoints observed so far, per channel
    chSend,     \* goroutines that have sent on the channel
    chRecv,     \* goroutines that have received from the channel
    \* ---- OpenAIHandler.chatStream
    opc,        \* handler position: "idle", "loop", "returned"
    olog,       \* results of stream.Recv and body writes, in order
    ostatus,    \* status line sent to the client (0: header not written yet)
    \* ---- ClaudeWeb.CreateChatMessage
    mpc,        \* "idle", "done"
    mBody,      \* lines of the response body
    mEnd,       \* what the read after the last byte returns
    mResult,    \* what the call returned
    \* ---- the non-streaming chat operations of the adapters
    cpc,        \* "idle", "done"
    cReq,       \* upstream requests the call issued
    cErr,       \* the error the call returned ("nil": none)
    \* ---- ClaudeWeb.request on one client, per calling goroutine
    mu,         \* c.mu: the goroutine holding it (0: unlocked)
    rpc,        \* "idle", "do", "return", "reading", "failed", "closed"
    rout,       \* what session.Do gave the goroutine
    nread,      \* lines the caller has read from the returned body
    \* ---- Together Client.ListModels
    cache,      \* the file cacheModelsFile: whether it exists, whether it decodes, its list
    lCalls,     \* calls of ListModels made
    lpc,        \* per caller, where its call is: "idle", "fetch", "create",
                \* "encode", "open", "decode"
    lModels,    \* per caller, the list its getModelsFromServer returned
    lOut,       \* per caller, how its fetch ended: "none", "failed", "answered"
    lExpect,    \* per caller, the latest answer of the server when its call began
    lFetch,     \* how the fetch of the latest call that fetched and has returned
                \* ended: "none", "failed", "answered"
    lAnswered,  \* the model list of the latest answer among the calls returned
    lResult,    \* per caller, what its latest call returned
    lFetchedWithCache,  \* a call contacted the server while the file existed
    lSkippedAfterFailure,  \* a call did not fetch although the latest fetch failed
    lFsFailed,  \* os.Create or Encode has failed
    \* ---- Bard Client.Ask
    bpc,        \* "idle", "done"
    bBody,      \* the response body, a sequence of bytes
    bResult,    \* how the call ended: "none", "answer", "error", "panic"
    \* ---- usage: SaveFromMessages, SaveFromText, Save
    upc,        \* "idle", "done", "panicked"
    uModel,     \* the model argument of the call
    uMessages,  \* the contents of the messages (SaveFromText: of the one text)
    uSaved,     \* the arguments Save was called with
    uTxn,       \* how the transaction ended
    uRecords,   \* the usage records in the database
    uErr        \* what the call returned

handlerVars == <<hpc, hrec, hData, hErr, received, frames, term, hfail, status>>
producerVars == <<akind, ppc, pval, perr, derived, errSends, termSent, lateSend,
                  upFailed, nReq, budget>>
bodyVars == <<body, bodyEnd, rpos>>
innerVars == <<iData, iErr, ipc, ival, ierr>>
chanVars == <<closed, chSend, chRecv>>
openaiVars == <<opc, olog, ostatus>>
messageVars == <<mpc, mBody, mEnd, mResult>>
chatVars == <<cpc, cReq, cErr>>

mutexVars == <<mu, rpc, rout, nread>>

\* The state of the streaming and chat operations, and the state of the others.
serverVars == <<crashed, handlerVars, producerVars, bodyVars, innerVars, chanVars,
                openaiVars, messageVars, chatVars>>
cacheVars == <<cache, lCalls, lpc, lModels, lOut, lExpect, lFetch, lAnswered, lResult,
               lFetchedWithCache, lSkippedAfterFailure, lFsFailed>>
bardVars == <<bpc, bBody, bResult>>
usageVars == <<upc, uModel, uMessages, uSaved, uTxn, uRecords, uErr>>
auxVars == <<mutexVars, cacheVars, bardVars, usageVars>>

vars == <<entry, serverVars, auxVars>>

\* Channels the runtime can allocate in one run: two per handler and two per
\* Together call.
Chans == 1..(4 * NumReqs)

\* The goroutines of one request.
Handler(r) == <<"handler", r>>
Producer(r) == <<"producer", r>>
Parser(r) == <<"parser", r>>

\* What becomes of a record or response the handler is to write: json.Marshal
\* fails, the write on the HTTP response fails, or both succeed.
WriteOutcomes == {"ok", "marshal error", "write error"}

\* -------------------------------------------------------------- channels

\* A make that hands every call the channels of the first one, as a channel kept
\* in a field of the handler would be.
MakeChanShared(r, k) == k

\* make(chan T) at the k-th make of the call serving request r: a channel no
\* other make has returned, whichever order the calls run in.
MakeChan(r, k) == 4 * (r - 1) + k

\* A completed send of goroutine g on channel c, received by goroutine h.
Met(c, g, h) ==
    /\ chSend' = [chSend EXCEPT ![c] = @ \cup {g}]
    /\ chRecv' = [chRecv EXCEPT ![c] = @ \cup {h}]

\* The send the adapter of request p blocks in next: a record on dataChan, an
\* error on errChan.
PendData(p, v) == pval' = [pval EXCEPT ![p] = v] /\ UNCHANGED perr
PendErr(p, e) == perr' = [perr EXCEPT ![p] = e] /\ UNCHANGED pval

\* The same for the goroutine behind the producer of request p (ParseSSE,
\* ClaudeWeb.CreateChatMessageStream) and the inner channels.
IPendData(p, v) == ival' = [ival EXCEPT ![p] = v] /\ UNCHANGED ierr
IPendErr(p, e) == ierr' = [ierr EXCEPT ![p] = e] /\ UNCHANGED ival

\* ------------------------------------------------------------ LLM handler

\* http.StatusOK and http.StatusInternalServerError.
StatusOK == 200
StatusInternalServerError == 500

\* c.Response().WriteHeader(code), also as the first step of c.String(code, s):
\* the status line goes out with the first call; once the response is committed
\* a further call changes nothing of what the client was sent.  st is the status
\* sent so far, 0 before the header is written.
WriteHeader(st, code) == IF st # 0 THEN st ELSE code

\* openai.go:301-314 (chatStream) and 202-216 (createMessageStream): make the two
\* channels, defer their close, start the goroutine of the service with them,
\* write the response header.  The service is the one newLlmService gave for the
\* request's model (openai.go:285, 339-341); which adapter it stands for is the
\* input k.
StartStream(r) ==
    /\ entry = "llm" /\ ~crashed
    /\ hpc[r] = "idle"
    /\ budget > 0
    /\ budget' = budget - 1
    /\ \E k \in Adapters : akind' = [akind EXCEPT ![r] = k]
    /\ hData' = [hData EXCEPT ![r] = MakeChan(r, 1)]
    /\ hErr' = [hErr EXCEPT ![r] = MakeChan(r, 2)]
    /\ ppc' = [ppc EXCEPT ![r] = "invoke"]
    /\ hpc' = [hpc EXCEPT ![r] = "loop"]
    /\ status' = [status EXCEPT ![r] = WriteHeader(@, StatusOK)]
    /\ UNCHANGED <<entry, auxVars, crashed, closed, chSend, chRecv, received, frames, term,
                   hrec, hfail, pval, perr, derived, errSends, termSent, lateSend,
                   upFailed, nReq, bodyVars, innerVars, openaiVars, messageVars,
                   chatVars>>

\* The frame written for a record: fmt.Sprintf("data: %s\n\n", msg).
DataFrame(rec) == [kind |-> "data", rec |-> rec, err |-> "nil"]

\* The same frame handed to c.Response().Write when the write fails: the client
\* has not been sent it.
FailedFrame(rec) == [kind |-> "failed data", rec |-> rec, err |-> "error"]

\* "data: [DONE]\n\n".
DoneFrame == [kind |-> "done", rec |-> 0, err |-> "nil"]

\* c.String(http.StatusInternalServerError, err.Error()).
ErrorText(err) == [kind |-> "error", rec |-> 0, err |-> err]

\* The body written on the terminal signal: "data: [DONE]\n\n" on io.EOF, the
\* error text otherwise (openai.go:330-334, 232-236).
TerminalFrame(err) == IF IsEOF(err) THEN DoneFrame ELSE ErrorText(err)

\* The status the handler passes to c.String on the terminal signal.
TerminalStatus(err) == IF IsEOF(err) THEN StatusOK ELSE StatusInternalServerError

\* Where the goroutine the handler started continues after a completed send on
\* dataChan.
AfterData(k) ==
    CASE k = "bedrock" -> "events"
      [] k = "claudeweb" -> "fselect"
      [] k = "together" -> "tselect"

\* case data := <-dataChan (openai.go:318, 220): the send of the producer blocked
\* on this channel completes, and the producer runs on while the handler
\* marshals and writes.
HandlerRecvData(r) ==
    /\ ~crashed /\ hpc[r] = "loop"
    /\ \E p \in Reqs :
          /\ ppc[p] = "sendData" /\ hData[p] = hData[r]
          /\ received' = [received EXCEPT ![r] = Append(@, pval[p])]
          /\ hrec' = [hrec EXCEPT ![r] = pval[p]]
          /\ Met(hData[r], Producer(p), Handler(r))
          /\ ppc' = [ppc EXCEPT ![p] = AfterData(akind[p])]
          /\ lateSend' = [lateSend EXCEPT ![p] = @ \/ errSends[p] > 0]
    /\ hpc' = [hpc EXCEPT ![r] = "write"]
    /\ UNCHANGED <<entry, auxVars, crashed, hData, hErr, frames, term, hfail, status,
                   closed, akind, pval, perr, derived, errSends, termSent, upFailed,
                   nReq, budget, bodyVars, innerVars, openaiVars, messageVars,
                   chatVars>>

\* openai.go:319-329 (221-231): marshal the record and write its frame.  When
\* json.Marshal fails no write of the record is made; when the write fails the
\* frame has not been sent; in both cases the handler answers with
\* c.String(500, err.Error()) and returns.
HandlerWrite(r) ==
    /\ ~crashed /\ hpc[r] = "write"
    /\ \E w \in WriteOutcomes :
          IF w = "ok"
          THEN /\ frames' = [frames EXCEPT ![r] = Append(@, DataFrame(hrec[r]))]
               /\ hpc' = [hpc EXCEPT ![r] = "loop"]
               /\ UNCHANGED <<hfail, status>>
          ELSE /\ frames' = [frames EXCEPT ![r] =
                                IF w = "marshal error"
                                THEN Append(@, ErrorText("error"))
                                ELSE @ \o <<FailedFrame(hrec[r]), ErrorText("error")>>]
               /\ hfail' = [hfail EXCEPT ![r] =
                               IF w = "marshal error" THEN "marshal" ELSE "write"]
               /\ status' = [status EXCEPT ![r] =
                                WriteHeader(@, StatusInternalServerError)]
               /\ hpc' = [hpc EXCEPT ![r] = "closeErr"]
    /\ UNCHANGED <<entry, auxVars, crashed, hrec, hData, hErr, received, term,
                   producerVars, bodyVars, innerVars, chanVars, openaiVars,
                   messageVars, chatVars>>

\* Channels the adapter closes by defer when it returns: the Together client its
\* two inner channels (part_001:185-188), the other adapters none.
DeferredClose(p) ==
    IF akind[p] = "together" /\ iData[p] # 0 THEN {iData[p], iErr[p]} ELSE {}

\* case err := <-errChan (openai.go:330-335, 232-237): the send of the producer
\* blocked on this channel completes and the producer returns, running its
\* deferred calls; the handler writes the terminal frame and returns.
HandlerRecvErr(r) ==
    /\ ~crashed /\ hpc[r] = "loop"
    /\ \E p \in Reqs :
          /\ ppc[p] = "sendErr" /\ hErr[p] = hErr[r]
          /\ term' = [term EXCEPT ![r] = perr[p]]
          /\ frames' = [frames EXCEPT ![r] = Append(@, TerminalFrame(perr[p]))]
          /\ status' = [status EXCEPT ![r] = WriteHeader(@, TerminalStatus(perr[p]))]
          /\ Met(hErr[r], Producer(p), Handler(r))
          /\ ppc' = [ppc EXCEPT ![p] = "returned"]
          /\ errSends' = [errSends EXCEPT ![p] = @ + 1]
          /\ termSent' = [termSent EXCEPT ![p] = perr[p]]
          /\ lateSend' = [lateSend EXCEPT ![p] = @ \/ errSends[p] > 0]
          /\ closed' = closed \cup DeferredClose(p)
    /\ hpc' = [hpc EXCEPT ![r] = "closeErr"]
    /\ UNCHANGED <<entry, auxVars, crashed, hrec, hData, hErr, received, hfail, akind,
                   pval, perr, derived, upFailed, nReq, budget, bodyVars, innerVars,
                   openaiVars, messageVars, chatVars>>

\* The handler returns: its deferred calls run last deferred first, so errChan
\* is closed (openai.go:305, 207) before dataChan is (openai.go:303, 205).
HandlerCloseErr(r) ==
    /\ ~crashed /\ hpc[r] = "closeErr"
    /\ closed' = closed \cup {hErr[r]}
    /\ hpc' = [hpc EXCEPT ![r] = "closeData"]
    /\ UNCHANGED <<entry, auxVars, crashed, hrec, hData, hErr, received, frames, term,
                   hfail, status, producerVars, bodyVars, innerVars, chSend, chRecv,
                   openaiVars, messageVars, chatVars>>

HandlerCloseData(r) ==
    /\ ~crashed /\ hpc[r] = "closeData"
    /\ closed' = closed \cup {hData[r]}
    /\ hpc' = [hpc EXCEPT ![r] = "returned"]
    /\ UNCHANGED <<entry, auxVars, crashed, hrec, hData, hErr, received, frames, term,
                   hfail, status, producerVars, bodyVars, innerVars, chSend, chRecv,
                   openaiVars, messageVars, chatVars>>

\* The channel a goroutine is blocked sending on (0: it is not in a send).
PendingChan(g) ==
    LET r == g[2] IN
    CASE g[1] = "producer" /\ ppc[r] = "sendData" -> hData[r]
      [] g[1] = "producer" /\ ppc[r] = "sendErr" -> hErr[r]
      [] g[1] = "parser" /\ ipc[r] = "isendData" -> iData[r]
      [] g[1] = "parser" /\ ipc[r] = "isendErr" -> iErr[r]
      [] OTHER -> 0

SendingGoroutines == {Producer(r) : r \in Reqs} \cup {Parser(r) : r \in Reqs}

\* Go runtime: a send on a closed channel panics; no goroutine of the program
\* recovers, so the process ends.
SendOnClosedPanic(g) ==
    /\ ~crashed
    /\ PendingChan(g) \in closed
    /\ crashed' = TRUE
    /\ IF g[1] = "producer"
       THEN ppc' = [ppc EXCEPT ![g[2]] = "panicked"] /\ UNCHANGED ipc
       ELSE ipc' = [ipc EXCEPT ![g[2]] = "panicked"] /\ UNCHANGED ppc
    /\ UNCHANGED <<entry, auxVars, handlerVars, akind, pval, perr, derived, errSends, termSent,
                   lateSend, upFailed, nReq, budget, bodyVars, iData, iErr, ival, ierr,
                   chanVars, openaiVars, messageVars, chatVars>>

\* ------------------------------------------------------- Bedrock adapter

\* What can come out of `range output.GetStream().Events()`: a chunk that decodes,
\* a chunk that does not, a union member the SDK does not know, or the closing of
\* the events channel, which the SDK does both at the end of the stream ("end")
\* and when the stream broke ("broken", the cause being kept for Err()).
\* A chunk that does not decode is one with bytes that are no JSON value
\* ("badchunk") or one with no bytes but white space ("emptychunk").
BedrockEvents == {"chunk", "badchunk", "emptychunk", "unknown", "end", "broken"}

\* client.go:105: the error of json.NewDecoder(...).Decode for a chunk that does
\* not decode; on input that holds no value Decode returns io.EOF.
DecodeError(ev) == IF ev = "emptychunk" THEN "io.EOF" ELSE "error"

\* The value sent on errChan once the range loop is over (client.go:125-126): the
\* loop does not ask the stream for its error.
BedrockAfterLoop(ev) == "io.EOF"

\* A request that is tried again when it fails.
BedrockRetryInvoke == "invoke"

\* client.go:94-97: the request failed, the error is sent and the call returns.
BedrockOnInvokeErr == "sendErr"

\* A loop that decodes a chunk and goes on to the next event without sending it.
BedrockChunkNotSent(decoded) == IF decoded THEN "events" ELSE "sendErr"

\* client.go:104-112: the position after a chunk, decoded or not.
BedrockOnChunk(decoded) == IF decoded THEN "sendData" ELSE "sendErr"

\* Client.CreateChatCompletion of the Bedrock client (client.go:63-82): one call
\* of InvokeModel, whose error is returned.
BedrockCreateChatCompletion ==
    /\ entry = "bedrockChat" /\ cpc = "idle"
    /\ cpc' = "done"
    /\ cReq' = cReq + 1
    /\ \E ok \in BOOLEAN : cErr' = IF ok THEN "nil" ELSE "error"
    /\ UNCHANGED <<entry, auxVars, crashed, handlerVars, producerVars, bodyVars, innerVars,
                   chanVars, openaiVars, messageVars>>

\* client.go:84-97: build the request and call InvokeModelWithResponseStream.
BedrockInvoke(p) ==
    /\ ~crashed /\ akind[p] = "bedrock" /\ ppc[p] = "invoke"
    /\ nReq' = [nReq EXCEPT ![p] = @ + 1]
    /\ \E o \in {"ok"} \cup TransportErrors :
          IF o = "ok"
          THEN /\ ppc' = [ppc EXCEPT ![p] = "events"]
               /\ UNCHANGED <<pval, perr, upFailed>>
          ELSE /\ ppc' = [ppc EXCEPT ![p] = BedrockOnInvokeErr]
               /\ PendErr(p, o)
               /\ upFailed' = [upFailed EXCEPT ![p] = TRUE]
    /\ UNCHANGED <<entry, auxVars, crashed, handlerVars, akind, derived, errSends, termSent,
                   lateSend, budget, bodyVars, innerVars, chanVars, openaiVars,
                   messageVars, chatVars>>

\* client.go:101-126: one iteration of the range loop, up to its channel send.
BedrockNextEvent(p) ==
    /\ ~crashed /\ akind[p] = "bedrock" /\ ppc[p] = "events"
    /\ \E ev \in BedrockEvents :
          CASE ev = "chunk" ->
                 /\ budget > 0
                 /\ budget' = budget - 1
                 /\ derived' = [derived EXCEPT ![p] = Append(@, Len(@) + 1)]
                 /\ PendData(p, Len(derived[p]) + 1)
                 /\ ppc' = [ppc EXCEPT ![p] = BedrockOnChunk(TRUE)]
                 /\ UNCHANGED upFailed
            [] ev \in {"badchunk", "emptychunk"} ->
                 /\ budget > 0
                 /\ budget' = budget - 1
                 /\ PendErr(p, DecodeError(ev))
                 /\ ppc' = [ppc EXCEPT ![p] = BedrockOnChunk(FALSE)]
                 /\ upFailed' = [upFailed EXCEPT ![p] = TRUE]
                 /\ UNCHANGED derived
            [] ev = "unknown" ->
                 /\ budget > 0
                 /\ budget' = budget - 1
                 /\ PendErr(p, "error")
                 /\ ppc' = [ppc EXCEPT ![p] = "sendErr"]
                 /\ UNCHANGED <<derived, upFailed>>
            [] ev \in {"end", "broken"} ->
                 /\ PendErr(p, BedrockAfterLoop(ev))
                 /\ ppc' = [ppc EXCEPT ![p] = "sendErr"]
                 /\ upFailed' = [upFailed EXCEPT ![p] = @ \/ ev = "broken"]
                 /\ UNCHANGED <<derived, budget>>
    /\ UNCHANGED <<entry, auxVars, crashed, handlerVars, akind, errSends, termSent, lateSend,
                   nReq, bodyVars, innerVars, chanVars, openaiVars, messageVars, chatVars>>

\* ------------------------------------------------------ ClaudeWeb adapter

\* A line of the response body as bufio.Reader.ReadBytes('\n') returns it: n is
\* its length in bytes, the delimiter included when nl, json tells whether
\* line[6:] unmarshals into a ChatMessageResponse, and key whether the JSON object
\* has a "completion" member.
\*   "\n"                              n = 1
\*   "data: \n"                        n = 7, line[6:] is no JSON value
\*   "data: {"completion":"<t>"}\n"  n = 25
\*   "data: {"stop":"x"}\n"          n = 19, an object without "completion"
\* and, only as the last line of a body that does not end in a newline,
\*   "ping"                            n = 4
\*   "data: {"completion":"<t>"}"    n = 24
BlankLine == [n |-> 1, nl |-> TRUE, json |-> FALSE, key |-> FALSE]
EmptyDataLine == [n |-> 7, nl |-> TRUE, json |-> FALSE, key |-> FALSE]
DataLine == [n |-> 25, nl |-> TRUE, json |-> TRUE, key |-> TRUE]
EventLine == [n |-> 19, nl |-> TRUE, json |-> TRUE, key |-> FALSE]
OpenShortLine == [n |-> 4, nl |-> FALSE, json |-> FALSE, key |-> FALSE]
OpenDataLine == [n |-> 24, nl |-> FALSE, json |-> TRUE, key |-> TRUE]

TerminatedLines == {BlankLine, EmptyDataLine, DataLine, EventLine}
OpenLines == {OpenShortLine, OpenDataLine}

RECURSIVE SeqsUpTo(_, _)
SeqsUpTo(S, k) ==
    IF k = 0 THEN {<<>>}
    ELSE LET shorter == SeqsUpTo(S, k - 1)
         IN shorter \cup {Append(q, x) : q \in shorter, x \in S}

\* The bodies of at most k lines: newline-terminated lines, then possibly one
\* last line that the end of the body cuts short.
Bodies(k) ==
    SeqsUpTo(TerminatedLines, k)
    \cup {Append(q, x) : q \in (IF k = 0 THEN {} ELSE SeqsUpTo(TerminatedLines, k - 1)),
                         x \in OpenLines}

\* What the read that meets the end of the body returns as its error.
BodyEnds == {"io.EOF", "error"}

\* The completion texts of the model: line i of a body that has a "completion"
\* member carries the text i, and 0 is the empty string.  Text(c) is the text as
\* a sequence of characters, which is what strings.Builder concatenates.
Text(c) == IF c = 0 THEN <<>> ELSE <<c>>

\* json.Unmarshal(line[6:], &chatMessageResponse), line being line i of the body:
\* the Completion field afterwards, prev being its value before.  A member the
\* object does not have leaves its field as it was.
Completion(line, i, prev) == IF line.key THEN i ELSE prev

\* reader.ReadBytes('\n') at line pos of body b: the line read and the error.  A
\* terminated line comes with no error; the bytes after the last newline come
\* with the error that ended the read.
ReadBytes(b, end, pos) ==
    IF pos <= Len(b) /\ b[pos].nl
    THEN [line |-> b[pos], err |-> "nil"]
    ELSE IF pos <= Len(b)
         THEN [line |-> b[pos], err |-> end]
         ELSE [line |-> [n |-> 0, nl |-> FALSE, json |-> FALSE, key |-> FALSE],
               err |-> end]

\* len(line) > 6 (client.go:398, 439).
HasPayload(line) == line.n > 6

\* ClaudeWeb.request through createChatMessage (client.go:208-220, 352-371): the
\* transport can fail, and a status of 400 or more is returned as an error too.
RequestOutcomes == {"ok", "transport error", "bad status"}

\* The goroutine the handler starts for a ClaudeWeb model is the service's: it
\* makes the stream channel and the error channel CreateChatMessageStream takes
\* (chan *ChatMessageResponse, chan error), starts it in a goroutine of its own
\* and forwards what it receives to the handler's channels.
ServiceStartClaudeWeb(p) ==
    /\ ~crashed /\ akind[p] = "claudeweb" /\ ppc[p] = "invoke"
    /\ iData' = [iData EXCEPT ![p] = MakeChan(p, 3)]
    /\ iErr' = [iErr EXCEPT ![p] = MakeChan(p, 4)]
    /\ ipc' = [ipc EXCEPT ![p] = "crequest"]
    /\ ppc' = [ppc EXCEPT ![p] = "fselect"]
    /\ UNCHANGED <<entry, auxVars, crashed, handlerVars, akind, pval, perr, derived,
                   errSends, termSent, lateSend, upFailed, nReq, budget, bodyVars,
                   ival, ierr, chanVars, openaiVars, messageVars, chatVars>>

\* The record the service sends on dataChan for a record of the ClaudeWeb
\* stream; the conversion keeps the record's text.
ServiceForward(data) == data

\* The service receives a record from the ClaudeWeb stream channel, up to its
\* send on dataChan.
ServiceRecvData(p) ==
    /\ ~crashed /\ akind[p] = "claudeweb" /\ ppc[p] = "fselect"
    /\ \E q \in Reqs :
          /\ ipc[q] = "isendData" /\ iData[q] = iData[p]
          /\ PendData(p, ServiceForward(ival[q]))
          /\ ipc' = [ipc EXCEPT ![q] = "cread"]
          /\ Met(iData[p], Parser(q), Producer(p))
    /\ ppc' = [ppc EXCEPT ![p] = "sendData"]
    /\ UNCHANGED <<entry, auxVars, crashed, handlerVars, akind, derived, errSends, termSent,
                   lateSend, upFailed, nReq, budget, bodyVars, iData, iErr, ival, ierr,
                   closed, openaiVars, messageVars, chatVars>>

\* The service receives the terminal value of the ClaudeWeb stream, up to its
\* send on errChan.
ServiceRecvErr(p) ==
    /\ ~crashed /\ akind[p] = "claudeweb" /\ ppc[p] = "fselect"
    /\ \E q \in Reqs :
          /\ ipc[q] = "isendErr" /\ iErr[q] = iErr[p]
          /\ PendErr(p, ierr[q])
          /\ ipc' = [ipc EXCEPT ![q] = "returned"]
          /\ Met(iErr[p], Parser(q), Producer(p))
    /\ ppc' = [ppc EXCEPT ![p] = "sendErr"]
    /\ UNCHANGED <<entry, auxVars, crashed, handlerVars, akind, derived, errSends, termSent,
                   lateSend, upFailed, nReq, budget, bodyVars, iData, iErr, ival, ierr,
                   closed, openaiVars, messageVars, chatVars>>

\* client.go:410-425: the one request of the call; on success the body is read
\* line by line.  The errors are formatted with %v: what is sent has no chain.
ClaudeWebRequest(p) ==
    /\ ~crashed /\ akind[p] = "claudeweb" /\ ipc[p] = "crequest"
    /\ nReq' = [nReq EXCEPT ![p] = @ + 1]
    /\ \E o \in RequestOutcomes :
          IF o = "ok"
          THEN \E b \in Bodies(budget), e \in BodyEnds :
                  /\ body' = [body EXCEPT ![p] = b]
                  /\ bodyEnd' = [bodyEnd EXCEPT ![p] = e]
                  /\ rpos' = [rpos EXCEPT ![p] = 1]
                  /\ budget' = budget - Len(b)
                  /\ ipc' = [ipc EXCEPT ![p] = "cread"]
                  /\ UNCHANGED <<ival, ierr, upFailed>>
          ELSE /\ ipc' = [ipc EXCEPT ![p] = "isendErr"]
               /\ IPendErr(p, "error")
               /\ upFailed' = [upFailed EXCEPT ![p] = TRUE]
               /\ UNCHANGED <<bodyVars, budget>>
    /\ UNCHANGED <<entry, auxVars, crashed, handlerVars, akind, ppc, pval, perr, derived,
                   errSends, termSent, lateSend, iData, iErr, chanVars, openaiVars,
                   messageVars, chatVars>>

\* client.go:427-447: what one iteration of the read loop at line pos of body b
\* sends: a record on streamChan ("data"), a terminal value on errChan ("err"),
\* or nothing ("skip").  The error of ReadBytes is looked at before the line it
\* came with; every payload line is decoded into a variable of its own.
StreamIteration(b, end, pos) ==
    LET rb == ReadBytes(b, end, pos) IN
    IF rb.err # "nil"
    THEN [kind |-> "err", rec |-> 0, err |-> rb.err]
    ELSE IF HasPayload(rb.line)
    THEN IF rb.line.json
         THEN [kind |-> "data", rec |-> Completion(rb.line, pos, 0), err |-> "nil"]
         ELSE [kind |-> "err", rec |-> 0, err |-> "error"]
    ELSE [kind |-> "skip", rec |-> 0, err |-> "nil"]

\* client.go:427-448: one iteration of the read loop, up to its channel send.
ClaudeWebRead(p) ==
    /\ ~crashed /\ akind[p] = "claudeweb" /\ ipc[p] = "cread"
    /\ LET it == StreamIteration(body[p], bodyEnd[p], rpos[p]) IN
       /\ rpos' = [rpos EXCEPT ![p] = @ + 1]
       /\ IF it.kind = "err"
          THEN /\ IPendErr(p, it.err)
               /\ ipc' = [ipc EXCEPT ![p] = "isendErr"]
               /\ upFailed' = [upFailed EXCEPT ![p] = @ \/ ~IsEOF(it.err)]
               /\ UNCHANGED derived
          ELSE IF it.kind = "data"
          THEN /\ derived' = [derived EXCEPT ![p] = Append(@, it.rec)]
               /\ IPendData(p, it.rec)
               /\ ipc' = [ipc EXCEPT ![p] = "isendData"]
               /\ UNCHANGED upFailed
          ELSE UNCHANGED <<ival, ierr, ipc, upFailed, derived>>
    /\ UNCHANGED <<entry, auxVars, crashed, handlerVars, akind, ppc, pval, perr, errSends,
                   termSent, lateSend, nReq, budget, body, bodyEnd, iData, iErr,
                   chanVars, openaiVars, messageVars, chatVars>>

\* The read loop of ClaudeWeb.CreateChatMessageStream (client.go:427-448) run to
\* its return from line pos on, every send being received: the records sent on
\* streamChan, in order, and the terminal value sent on errChan.
RECURSIVE CreateChatMessageStreamLoop(_, _, _, _)
CreateChatMessageStreamLoop(b, end, pos, sent) ==
    LET it == StreamIteration(b, end, pos) IN
    IF it.kind = "err"
    THEN [records |-> sent, err |-> it.err]
    ELSE IF it.kind = "data"
    THEN CreateChatMessageStreamLoop(b, end, pos + 1, Append(sent, it.rec))
    ELSE CreateChatMessageStreamLoop(b, end, pos + 1, sent)

\* The read loop of ClaudeWeb.CreateChatMessage (client.go:390-407) from line pos
\* on, cur being the Completion field of the one chatMessageResponse variable
\* declared before the loop (client.go:385) and sb the text written to the
\* strings.Builder so far.
RECURSIVE CreateChatMessageLoop(_, _, _, _, _)
CreateChatMessageLoop(b, end, pos, cur, sb) ==
    LET rb == ReadBytes(b, end, pos) IN
    IF rb.err # "nil"
    THEN IF IsEOF(rb.err)
         THEN [err |-> "nil", completion |-> sb]
         ELSE [err |-> "error", completion |-> <<>>]
    ELSE IF HasPayload(rb.line)
    THEN IF rb.line.json
         THEN LET c == Completion(rb.line, pos, cur)
              IN CreateChatMessageLoop(b, end, pos + 1, c, sb \o Text(c))
         ELSE [err |-> "error", completion |-> <<>>]
    ELSE CreateChatMessageLoop(b, end, pos + 1, cur, sb)

\* ClaudeWeb.CreateChatMessage (client.go:373-408).
CreateChatMessage ==
    /\ entry = "claudeMessage" /\ mpc = "idle"
    /\ mpc' = "done"
    /\ \E o \in RequestOutcomes :
          IF o = "ok"
          THEN \E b \in Bodies(MaxWork - 1), e \in BodyEnds :
                  /\ mBody' = b
                  /\ mEnd' = e
                  /\ mResult' = CreateChatMessageLoop(b, e, 1, 0, <<>>)
          ELSE /\ mResult' = [err |-> "error", completion |-> <<>>]
               /\ UNCHANGED <<mBody, mEnd>>
    /\ cReq' = cReq + 1
    /\ cErr' = mResult'.err
    /\ UNCHANGED <<entry, auxVars, crashed, handlerVars, producerVars, bodyVars, innerVars,
                   chanVars, openaiVars, cpc>>

\* ------------------------------------------------------ ClaudeWeb.request

Callers == 1..NumCallers

\* A request whose lock is given back only on the path that returns a body.
UnlockOnSuccessOnly(holder, o) == IF o = "ok" THEN 0 ELSE holder

\* defer c.mu.Unlock() (client.go:210): the mutex after the return of request,
\* whichever return statement was taken.
DeferredUnlock(holder, o) == 0

\* client.go:209: c.mu.Lock() blocks until the mutex is free.
RequestLock(g) ==
    /\ entry = "claudeRequest" /\ rpc[g] = "idle"
    /\ mu = 0
    /\ mu' = g
    /\ rpc' = [rpc EXCEPT ![g] = "do"]
    /\ UNCHANGED <<entry, serverVars, cacheVars, bardVars, usageVars, rout, nread>>

\* client.go:211-212: set the headers and send the request.
RequestDo(g) ==
    /\ entry = "claudeRequest" /\ rpc[g] = "do"
    /\ \E o \in RequestOutcomes : rout' = [rout EXCEPT ![g] = o]
    /\ rpc' = [rpc EXCEPT ![g] = "return"]
    /\ UNCHANGED <<entry, serverVars, cacheVars, bardVars, usageVars, mu, nread>>

\* client.go:213-219: one of the three return statements, then the deferred
\* unlock; on success the caller goes on to read the body.
RequestReturn(g) ==
    /\ entry = "claudeRequest" /\ rpc[g] = "return"
    /\ mu' = DeferredUnlock(mu, rout[g])
    /\ rpc' = [rpc EXCEPT ![g] = IF rout[g] = "ok" THEN "reading" ELSE "failed"]
    /\ UNCHANGED <<entry, serverVars, cacheVars, bardVars, usageVars, rout, nread>>

\* client.go:428: the caller reads one more line of the body it was returned.
CallerReadLine(g) ==
    /\ entry = "claudeRequest" /\ rpc[g] = "reading"
    /\ nread[g] < MaxWork
    /\ nread' = [nread EXCEPT ![g] = @ + 1]
    /\ UNCHANGED <<entry, serverVars, cacheVars, bardVars, usageVars, mu, rpc, rout>>

\* client.go:425: the caller returns and closes the body.
CallerClose(g) ==
    /\ entry = "claudeRequest" /\ rpc[g] = "reading"
    /\ rpc' = [rpc EXCEPT ![g] = "closed"]
    /\ UNCHANGED <<entry, serverVars, cacheVars, bardVars, usageVars, mu, rout, nread>>

\* ------------------------------------------------------ Together adapter

\* Client.CreateChatCompletion of the Together client (part_001:142-164): a
\* request that cannot be marshalled is returned as an error before anything is
\* sent; otherwise one request, and a failed request or an undecodable body is
\* returned as the error.
TogetherCreateChatCompletion ==
    /\ entry = "togetherChat" /\ cpc = "idle"
    /\ cpc' = "done"
    /\ \E marshalled \in BOOLEAN, done \in BOOLEAN, decoded \in BOOLEAN :
          /\ cReq' = IF marshalled THEN cReq + 1 ELSE cReq
          /\ cErr' = IF marshalled /\ done /\ decoded THEN "nil" ELSE "error"
    /\ UNCHANGED <<entry, auxVars, crashed, handlerVars, producerVars, bodyVars, innerVars,
                   chanVars, openaiVars, messageVars>>

\* The record sent on dataChan for a record received from innerDataChan
\* (part_001:193-194); the conversion keeps the record's text.
TogetherForward(data) == data

\* part_001:166-190: a request that cannot be marshalled ends the call with an
\* error and nothing sent (170-174); otherwise the one request of the call, whose
\* error is wrapped with %w and sent (178-182); on success the two inner channels
\* are made and llm.ParseSSE is started on the response body.  The status of the
\* response is not looked at.
TogetherDo(p) ==
    /\ ~crashed /\ akind[p] = "together" /\ ppc[p] = "invoke"
    /\ \E o \in {"marshal error", "ok"} \cup TransportErrors :
          IF o = "marshal error"
          THEN /\ ppc' = [ppc EXCEPT ![p] = "sendErr"]
               /\ PendErr(p, "error")
               /\ UNCHANGED <<nReq, upFailed, iData, iErr, ipc>>
          ELSE IF o = "ok"
          THEN /\ nReq' = [nReq EXCEPT ![p] = @ + 1]
               /\ iData' = [iData EXCEPT ![p] = MakeChan(p, 3)]
               /\ iErr' = [iErr EXCEPT ![p] = MakeChan(p, 4)]
               /\ ipc' = [ipc EXCEPT ![p] = "parse"]
               /\ ppc' = [ppc EXCEPT ![p] = "tselect"]
               /\ UNCHANGED <<pval, perr, upFailed>>
          ELSE /\ nReq' = [nReq EXCEPT ![p] = @ + 1]
               /\ ppc' = [ppc EXCEPT ![p] = "sendErr"]
               /\ PendErr(p, o)
               /\ upFailed' = [upFailed EXCEPT ![p] = TRUE]
               /\ UNCHANGED <<iData, iErr, ipc>>
    /\ UNCHANGED <<entry, auxVars, crashed, handlerVars, akind, derived, errSends, termSent,
                   lateSend, budget, bodyVars, ival, ierr, closed, chSend, chRecv,
                   openaiVars, messageVars, chatVars>>

\* case data := <-innerDataChan (part_001:193-194), up to the send on dataChan.
TogetherRecvData(p) ==
    /\ ~crashed /\ akind[p] = "together" /\ ppc[p] = "tselect"
    /\ \E q \in Reqs :
          /\ ipc[q] = "isendData" /\ iData[q] = iData[p]
          /\ PendData(p, TogetherForward(ival[q]))
          /\ ipc' = [ipc EXCEPT ![q] = "parse"]
          /\ Met(iData[p], Parser(q), Producer(p))
    /\ ppc' = [ppc EXCEPT ![p] = "sendData"]
    /\ UNCHANGED <<entry, auxVars, crashed, handlerVars, akind, derived, errSends, termSent,
                   lateSend, upFailed, nReq, budget, bodyVars, iData, iErr, ival, ierr,
                   closed, openaiVars, messageVars, chatVars>>

\* case err := <-innerErrChan (part_001:195-197), up to the send on errChan.
TogetherRecvErr(p) ==
    /\ ~crashed /\ akind[p] = "together" /\ ppc[p] = "tselect"
    /\ \E q \in Reqs :
          /\ ipc[q] = "isendErr" /\ iErr[q] = iErr[p]
          /\ PendErr(p, ierr[q])
          /\ ipc' = [ipc EXCEPT ![q] = "returned"]
          /\ Met(iErr[p], Parser(q), Producer(p))
    /\ ppc' = [ppc EXCEPT ![p] = "sendErr"]
    /\ UNCHANGED <<entry, auxVars, crashed, handlerVars, akind, derived, errSends, termSent,
                   lateSend, upFailed, nReq, budget, bodyVars, iData, iErr, ival, ierr,
                   closed, openaiVars, messageVars, chatVars>>

\* What llm.ParseSSE meets next in the response body: a frame that decodes, a
\* frame that does not, the end of the stream, or a failed read.
SSEEvents == {"frame", "badframe", "end", "broken"}

\* llm.ParseSSE, one frame of the body up to its channel send: a record on the
\* data channel per decoded frame, one terminal value on the error channel.
ParseSSE(p) ==
    /\ ~crashed /\ ipc[p] = "parse"
    /\ \E ev \in SSEEvents :
          CASE ev = "frame" ->
                 /\ budget > 0
                 /\ budget' = budget - 1
                 /\ derived' = [derived EXCEPT ![p] = Append(@, Len(@) + 1)]
                 /\ IPendData(p, Len(derived[p]) + 1)
                 /\ ipc' = [ipc EXCEPT ![p] = "isendData"]
                 /\ UNCHANGED upFailed
            [] ev = "badframe" ->
                 /\ budget > 0
                 /\ budget' = budget - 1
                 /\ IPendErr(p, "error")
                 /\ ipc' = [ipc EXCEPT ![p] = "isendErr"]
                 /\ upFailed' = [upFailed EXCEPT ![p] = TRUE]
                 /\ UNCHANGED derived
            [] ev = "end" ->
                 /\ IPendErr(p, "io.EOF")
                 /\ ipc' = [ipc EXCEPT ![p] = "isendErr"]
                 /\ UNCHANGED <<derived, budget, upFailed>>
            [] ev = "broken" ->
                 /\ IPendErr(p, "error")
                 /\ ipc' = [ipc EXCEPT ![p] = "isendErr"]
                 /\ upFailed' = [upFailed EXCEPT ![p] = TRUE]
                 /\ UNCHANGED <<derived, budget>>
    /\ UNCHANGED <<entry, auxVars, crashed, handlerVars, akind, ppc, pval, perr, errSends, termSent,
                   lateSend, nReq, bodyVars, iData, iErr, chanVars, openaiVars,
                   messageVars, chatVars>>

\* ------------------------------------------------- Together Client.ListModels

\* The entries of the server's answer to GET /models/info that the client reads:
\* name and display_type of a model.
ModelInfos == {[name |-> "m1", type |-> "chat"], [name |-> "m2", type |-> "language"]}

\* What the fetch can meet: no answer, a body that does not decode into a list,
\* or a list of models.
ModelLists == SeqsUpTo(ModelInfos, MaxModels)
FetchOutcomes == {[kind |-> "transport error", models |-> <<>>],
                  [kind |-> "undecodable", models |-> <<>>]}
                 \cup {[kind |-> "list", models |-> l] : l \in ModelLists}

\* part_001:117-132: the decoded list, and the empty list of line 118 when the
\* request or the decoding failed.
getModelsFromServer(o) == IF o.kind = "list" THEN o.models ELSE <<>>

\* The goroutines of the server that call ListModels on the client; they share
\* the one path cacheModelsFile (part_001:18) and hold no lock.
Listers == 1..NumListers

\* os.Create(cacheModelsFile) (part_001:105): the file exists and is empty from
\* here on, whatever it held; when the call fails the file is as it was.
CreateFile(file, ok) ==
    IF ok THEN [present |-> TRUE, valid |-> FALSE, models |-> <<>>] ELSE file

\* What Encode can meet on the created file: the list is written, nothing is
\* written (the list does not marshal, or the write fails at once), or the write
\* fails part of the way.
EncodeOutcomes == {"ok", "nothing written", "partly written"}

\* json.NewEncoder(modelsFile).Encode(models) (part_001:111): one write at the
\* start of the file as it is now; a decoder reads the first value of the file,
\* which is the list of the latest complete write.
EncodeFile(file, models, o) ==
    CASE o = "ok" -> [present |-> TRUE, valid |-> TRUE, models |-> models]
      [] o = "nothing written" -> file
      [] o = "partly written" -> [present |-> TRUE, valid |-> FALSE, models |-> <<>>]

\* The names of the models of display type "chat", in the order of the list.
RECURSIVE ChatNames(_)
ChatNames(l) ==
    IF l = <<>> THEN <<>>
    ELSE (IF Head(l).type = "chat" THEN <<Head(l).name>> ELSE <<>>) \o ChatNames(Tail(l))

\* part_001:82-102: no names when the file cannot be opened or what it holds
\* does not decode into a list of models.
readModelsCache(file) ==
    IF file.present /\ file.valid THEN ChatNames(file.models) ELSE <<>>

\* The call of g returns: what it returned is kept, and a fetch it made becomes
\* the latest fetch of a call that has returned.
ListReturn(g, names) ==
    /\ lpc' = [lpc EXCEPT ![g] = "idle"]
    /\ lResult' = [lResult EXCEPT ![g] = names]
    /\ lFetch' = IF lOut[g] = "none" THEN lFetch ELSE lOut[g]
    /\ lAnswered' = IF lOut[g] = "answered" THEN lModels[g] ELSE lAnswered
    /\ lOut' = [lOut EXCEPT ![g] = "none"]
    /\ lModels' = [lModels EXCEPT ![g] = <<>>]

\* part_001:135: os.Stat(cacheModelsFile) at the start of a call; the call
\* fetches when there is no file and goes on to read when there is one.
ListModelsStat(g) ==
    /\ entry = "togetherModels"
    /\ lpc[g] = "idle"
    /\ lCalls < MaxCalls
    /\ lCalls' = lCalls + 1
    /\ lpc' = [lpc EXCEPT ![g] = IF cache.present THEN "open" ELSE "fetch"]
    /\ lExpect' = [lExpect EXCEPT ![g] = IF lFetch = "answered" THEN lAnswered ELSE <<>>]
    /\ lSkippedAfterFailure' =
          (lSkippedAfterFailure \/ (cache.present /\ lFetch = "failed"))
    /\ UNCHANGED <<cache, lModels, lOut, lFetch, lAnswered, lResult, lFetchedWithCache,
                   lFsFailed>>
    /\ UNCHANGED <<entry, serverVars, mutexVars, bardVars, usageVars>>

\* part_001:136, 117-132: the request to the server and the decoding of its
\* answer.
ListModelsFetch(g) ==
    /\ lpc[g] = "fetch"
    /\ \E o \in FetchOutcomes :
          /\ lModels' = [lModels EXCEPT ![g] = getModelsFromServer(o)]
          /\ lOut' = [lOut EXCEPT ![g] = IF o.kind = "list" THEN "answered" ELSE "failed"]
    /\ lFetchedWithCache' = (lFetchedWithCache \/ cache.present)
    /\ lpc' = [lpc EXCEPT ![g] = "create"]
    /\ UNCHANGED <<cache, lCalls, lExpect, lFetch, lAnswered, lResult,
                   lSkippedAfterFailure, lFsFailed>>
    /\ UNCHANGED <<entry, serverVars, mutexVars, bardVars, usageVars>>

\* part_001:137, 104-109: saveModelsCache up to os.Create; when it fails the call
\* goes on to read.
saveModelsCacheCreate(g) ==
    /\ lpc[g] = "create"
    /\ \E ok \in BOOLEAN :
          /\ cache' = CreateFile(cache, ok)
          /\ lpc' = [lpc EXCEPT ![g] = IF ok THEN "encode" ELSE "open"]
          /\ lFsFailed' = (lFsFailed \/ ~ok)
    /\ UNCHANGED <<lCalls, lModels, lOut, lExpect, lFetch, lAnswered, lResult,
                   lFetchedWithCache, lSkippedAfterFailure>>
    /\ UNCHANGED <<entry, serverVars, mutexVars, bardVars, usageVars>>

\* part_001:110-115: the rest of saveModelsCache, Encode on the created file.
saveModelsCacheEncode(g) ==
    /\ lpc[g] = "encode"
    /\ \E o \in EncodeOutcomes :
          /\ cache' = EncodeFile(cache, lModels[g], o)
          /\ lFsFailed' = (lFsFailed \/ o # "ok")
    /\ lpc' = [lpc EXCEPT ![g] = "open"]
    /\ UNCHANGED <<lCalls, lModels, lOut, lExpect, lFetch, lAnswered, lResult,
                   lFetchedWithCache, lSkippedAfterFailure>>
    /\ UNCHANGED <<entry, serverVars, mutexVars, bardVars, usageVars>>

\* part_001:139, 82-89: readModelsCache up to os.Open; without a file the call
\* returns no names.
readModelsCacheOpen(g) ==
    /\ lpc[g] = "open"
    /\ IF cache.present
       THEN /\ lpc' = [lpc EXCEPT ![g] = "decode"]
            /\ UNCHANGED <<lModels, lOut, lFetch, lAnswered, lResult>>
       ELSE ListReturn(g, readModelsCache(cache))
    /\ UNCHANGED <<cache, lCalls, lExpect, lFetchedWithCache, lSkippedAfterFailure,
                   lFsFailed>>
    /\ UNCHANGED <<entry, serverVars, mutexVars, bardVars, usageVars>>

\* part_001:90-101: the rest of readModelsCache, Decode on the file as it is
\* now, and the return of the call.
readModelsCacheDecode(g) ==
    /\ lpc[g] = "decode"
    /\ ListReturn(g, readModelsCache(cache))
    /\ UNCHANGED <<cache, lCalls, lExpect, lFetchedWithCache, lSkippedAfterFailure,
                   lFsFailed>>
    /\ UNCHANGED <<entry, serverVars, mutexVars, bardVars, usageVars>>

\* part_001:134-140: the steps of a call of ListModels by g.
ListModels(g) ==
    \/ ListModelsStat(g) \/ ListModelsFetch(g)
    \/ saveModelsCacheCreate(g) \/ saveModelsCacheEncode(g)
    \/ readModelsCacheOpen(g) \/ readModelsCacheDecode(g)

\* ---------------------------------------------------------- Bard Client.Ask

\* The bytes of a response body in the model: the newline, a byte "j" that alone
\* on its line is a line parse accepts, and any other byte "x".
BodyBytes == {"\n", "j", "x"}
BardBodies == SeqsUpTo(BodyBytes, MaxBody)

\* bytes.Split(body, []byte("\n")): the pieces between the newlines, one more
\* than there are newlines; cur is the piece being collected.
RECURSIVE Split(_, _)
Split(bytes, cur) ==
    IF bytes = <<>> THEN <<cur>>
    ELSE IF Head(bytes) = "\n"
         THEN <<cur>> \o Split(Tail(bytes), <<>>)
         ELSE Split(Tail(bytes), Append(cur, Head(bytes)))

\* parse(line): the answer in the line, or an error for a line that holds none.
parse(line) == IF line = <<"j">> THEN "answer" ELSE "error"

\* data1[3] (bard/client.go:165): the fourth piece; the index is out of range for
\* a slice of fewer than four pieces, and the run-time panics.
IndexedLine(data1) ==
    IF Len(data1) >= 4 THEN [ok |-> TRUE, line |-> data1[4]]
    ELSE [ok |-> FALSE, line |-> <<>>]

\* bard/client.go:164-165, on the body that was read.
AskResult(b) ==
    LET l == IndexedLine(Split(b, <<>>))
    IN IF l.ok THEN parse(l.line) ELSE "panic"

\* bard/client.go:146-166: build the request, send it, read the whole body; each
\* of the three can fail and is then returned as the error.
Ask ==
    /\ entry = "bardAsk" /\ bpc = "idle"
    /\ bpc' = "done"
    /\ \E built \in BOOLEAN, done \in BOOLEAN, read \in BOOLEAN, b \in BardBodies :
          IF built /\ done /\ read
          THEN bBody' = b /\ bResult' = AskResult(b)
          ELSE bResult' = "error" /\ UNCHANGED bBody
    /\ UNCHANGED <<entry, serverVars, mutexVars, cacheVars, usageVars>>

\* ------------------------------------------------------------ package usage

\* Model names: one tiktoken has an encoding for, one it has none for.
UsageModels == {"gpt-4", "claude-2"}

\* A text is the sequence of its tokens.
Texts == SeqsUpTo({"t"}, MaxTokens)
MessageLists == SeqsUpTo(Texts, MaxMsgs)

\* NewTikToken (Makefile:31-40): the error of tiktoken.EncodingForModel is logged
\* and the Token is returned all the same, around a nil *Tiktoken.
NewTikToken(model) == IF model = "gpt-4" THEN "cl100k_base" ELSE "nil"

\* Token.Encode (Makefile:42-44): the number of tokens; on a nil *Tiktoken the
\* call dereferences nil and panics.
Encode(tk, text) ==
    IF tk = "nil" THEN [ok |-> FALSE, n |-> 0] ELSE [ok |-> TRUE, n |-> Len(text)]

\* Token.CalculateTotalTokensFromMessages (Makefile:46-52), total being
\* totalTokens before the remaining messages are added.
RECURSIVE CalculateTotalTokensFromMessages(_, _, _)
CalculateTotalTokensFromMessages(tk, messages, total) ==
    IF messages = <<>> THEN [ok |-> TRUE, n |-> total]
    ELSE LET e == Encode(tk, Head(messages))
         IN IF e.ok
            THEN CalculateTotalTokensFromMessages(tk, Tail(messages), total + e.n)
            ELSE e

\* usageDao.RunInTransaction around llm.SaveLlmUsage: the insert can fail, and
\* the commit can; either rolls the transaction back.
TxnOutcomes == {"committed", "insert failed", "commit failed"}

\* The record llm.SaveLlmUsage writes (Makefile:71-76).
LlmUsages(model, usage) == [model |-> model, tokenUsage |-> usage]

\* The database after the transaction of Save.
SaveLlmUsage(records, model, usage, t) ==
    IF t = "committed" THEN Append(records, LlmUsages(model, usage)) ELSE records

\* Save (Makefile:66-83) with the count it is passed.
Save(model, usage) ==
    \E t \in TxnOutcomes :
        /\ uSaved' = Append(uSaved, [model |-> model, usage |-> usage])
        /\ uTxn' = t
        /\ uRecords' = SaveLlmUsage(uRecords, model, usage, t)
        /\ uErr' = IF t = "committed" THEN "nil" ELSE "error"
        /\ upc' = "done"

\* The call panicked before it reached Save.
UsagePanic ==
    /\ upc' = "panicked"
    /\ UNCHANGED <<uSaved, uTxn, uRecords, uErr>>

\* SaveFromMessages (Makefile:54-58).
SaveFromMessages ==
    /\ entry = "usage" /\ upc = "idle"
    /\ \E model \in UsageModels, messages \in MessageLists :
          /\ uModel' = model
          /\ uMessages' = messages
          /\ LET tokenUsage ==
                   CalculateTotalTokensFromMessages(NewTikToken(model), messages, 0)
             IN IF tokenUsage.ok THEN Save(model, tokenUsage.n) ELSE UsagePanic
    /\ UNCHANGED <<entry, serverVars, mutexVars, cacheVars, bardVars>>

\* SaveFromText (Makefile:60-64).
SaveFromText ==
    /\ entry = "usage" /\ upc = "idle"
    /\ \E model \in UsageModels, text \in Texts :
          /\ uModel' = model
          /\ uMessages' = <<text>>
          /\ LET tokenUsage == Encode(NewTikToken(model), text)
             IN IF tokenUsage.ok THEN Save(model, tokenUsage.n) ELSE UsagePanic
    /\ UNCHANGED <<entry, serverVars, mutexVars, cacheVars, bardVars>>

\* -------------------------------------------------- OpenAIHandler.chatStream

\* What stream.Recv returns: a response, io.EOF, or another error.
RecvOutcomes == {"resp", "io.EOF", "error"}

\* Calls of stream.Recv made so far.
RECURSIVE CountRecv(_)
CountRecv(log) ==
    IF log = <<>> THEN 0
    ELSE (IF Head(log)[1] = "recv" THEN 1 ELSE 0) + CountRecv(Tail(log))

\* openai.go:76-83: open the stream; on failure answer 500 and return.
OpenAIChatStream ==
    /\ entry = "openai" /\ opc = "idle"
    /\ \E ok \in BOOLEAN :
          IF ok
          THEN /\ opc' = "loop" /\ UNCHANGED olog
               /\ ostatus' = WriteHeader(ostatus, StatusOK)
          ELSE /\ opc' = "returned" /\ olog' = Append(olog, <<"write", "error">>)
               /\ ostatus' = WriteHeader(ostatus, StatusInternalServerError)
    /\ UNCHANGED <<entry, auxVars, crashed, handlerVars, producerVars, bodyVars, innerVars,
                   chanVars, messageVars, chatVars>>

\* openai.go:85-100: one iteration of the loop.  Of the results of Recv only
\* io.EOF ends it: after any other, resp is marshalled and written as a data
\* frame, and the handler answers 500 and returns when json.Marshal fails
\* (nothing of resp written) or the write does.
OpenAIRecv ==
    /\ entry = "openai" /\ opc = "loop"
    /\ CountRecv(olog) < MaxRecv
    /\ \E o \in RecvOutcomes, w \in WriteOutcomes :
          IF IsEOF(o)
          THEN /\ olog' = olog \o <<<<"recv", o>>, <<"write", "done">>>>
               /\ opc' = "returned"
               /\ ostatus' = WriteHeader(ostatus, StatusOK)
          ELSE IF w = "ok"
          THEN /\ olog' = olog \o <<<<"recv", o>>, <<"write", "data">>>>
               /\ opc' = "loop"
               /\ UNCHANGED ostatus
          ELSE /\ olog' = olog \o <<<<"recv", o>>>> \o
                               (IF w = "marshal error" THEN <<>>
                                ELSE <<<<"write", "data">>>>) \o
                               <<<<"write", "error">>>>
               /\ opc' = "returned"
               /\ ostatus' = WriteHeader(ostatus, StatusInternalServerError)
    /\ UNCHANGED <<entry, auxVars, crashed, handlerVars, producerVars, bodyVars, innerVars,
                   chanVars, messageVars, chatVars>>

\* ------------------------------------------------------------ the system

\* The entry points of the server.
Entries == {"llm", "openai", "claudeMessage", "bedrockChat", "togetherChat",
            "claudeRequest", "togetherModels", "bardAsk",
            "usage"}

Init ==
    /\ entry \in Entries
    /\ crashed = FALSE
    /\ hpc = [r \in Reqs |-> "idle"]
    /\ hData = [r \in Reqs |-> 0]
    /\ hErr = [r \in Reqs |-> 0]
    /\ closed = {}
    /\ received = [r \in Reqs |-> <<>>]
    /\ frames = [r \in Reqs |-> <<>>]
    /\ term = [r \in Reqs |-> "none"]
    /\ hfail = [r \in Reqs |-> "none"]
    /\ hrec = [r \in Reqs |-> 0]
    /\ status = [r \in Reqs |-> 0]
    /\ akind = [r \in Reqs |-> "none"]
    /\ ppc = [r \in Reqs |-> "idle"]
    /\ pval = [r \in Reqs |-> 0]
    /\ perr = [r \in Reqs |-> "none"]
    /\ derived = [r \in Reqs |-> <<>>]
    /\ errSends = [r \in Reqs |-> 0]
    /\ termSent = [r \in Reqs |-> "none"]
    /\ lateSend = [r \in Reqs |-> FALSE]
    /\ upFailed = [r \in Reqs |-> FALSE]
    /\ nReq = [r \in Reqs |-> 0]
    /\ budget = MaxWork
    /\ body = [r \in Reqs |-> <<>>]
    /\ bodyEnd = [r \in Reqs |-> "none"]
    /\ rpos = [r \in Reqs |-> 0]
    /\ iData = [r \in Reqs |-> 0]
    /\ iErr = [r \in Reqs |-> 0]
    /\ ipc = [r \in Reqs |-> "idle"]
    /\ ival = [r \in Reqs |-> 0]
    /\ ierr = [r \in Reqs |-> "none"]
    /\ chSend = [c \in Chans |-> {}]
    /\ chRecv = [c \in Chans |-> {}]
    /\ opc = "idle"
    /\ olog = <<>>
    /\ ostatus = 0
    /\ mpc = "idle"
    /\ mBody = <<>>
    /\ mEnd = "none"
    /\ mResult = [err |-> "none", completion |-> <<>>]
    /\ cpc = "idle"
    /\ cReq = 0
    /\ cErr = "none"
    /\ mu = 0
    /\ rpc = [g \in Callers |-> "idle"]
    /\ rout = [g \in Callers |-> "none"]
    /\ nread = [g \in Callers |-> 0]
    /\ cache \in {[present |-> FALSE, valid |-> FALSE, models |-> <<>>]}
                \cup (IF entry = "togetherModels"
                      THEN {[present |-> TRUE, valid |-> TRUE, models |-> l] :
                               l \in ModelLists}
                           \cup {[present |-> TRUE, valid |-> FALSE, models |-> <<>>]}
                      ELSE {})
    /\ lCalls = 0
    /\ lFetch = "none"
    /\ lAnswered = <<>>
    /\ lResult = [g \in Listers |-> <<>>]
    /\ lpc = [g \in Listers |-> "idle"]
    /\ lModels = [g \in Listers |-> <<>>]
    /\ lOut = [g \in Listers |-> "none"]
    /\ lExpect = [g \in Listers |-> <<>>]
    /\ lFetchedWithCache = FALSE
    /\ lSkippedAfterFailure = FALSE
    /\ lFsFailed = FALSE
    /\ bpc = "idle"
    /\ bBody = <<>>
    /\ bResult = "none"
    /\ upc = "idle"
    /\ uModel = "none"
    /\ uMessages = <<>>
    /\ uSaved = <<>>
    /\ uTxn = "none"
    /\ uRecords = <<>>
    /\ uErr = "none"

\* The steps of the handler goroutine and of the producer goroutine of request
\* r.
HandlerStep(r) ==
    \/ StartStream(r) \/ HandlerRecvData(r) \/ HandlerWrite(r) \/ HandlerRecvErr(r)
    \/ HandlerCloseErr(r) \/ HandlerCloseData(r)

ProducerStep(r) ==
    \/ BedrockInvoke(r) \/ BedrockNextEvent(r)
    \/ ServiceStartClaudeWeb(r) \/ ServiceRecvData(r) \/ ServiceRecvErr(r)
    \/ TogetherDo(r) \/ TogetherRecvData(r) \/ TogetherRecvErr(r)

\* The steps of the goroutine behind the inner channels of request r: llm.ParseSSE
\* for the Together client, ClaudeWeb.CreateChatMessageStream for the service.
InnerStep(r) == ParseSSE(r) \/ ClaudeWebRequest(r) \/ ClaudeWebRead(r)

Next ==
    \/ \E r \in Reqs : HandlerStep(r)
    \/ \E r \in Reqs : ProducerStep(r)
    \/ \E r \in Reqs : InnerStep(r)
    \/ \E g \in SendingGoroutines : SendOnClosedPanic(g)
    \/ OpenAIChatStream
    \/ OpenAIRecv
    \/ CreateChatMessage
    \/ BedrockCreateChatCompletion
    \/ TogetherCreateChatCompletion
    \/ \E g \in Callers : RequestLock(g)
    \/ \E g \in Callers : RequestDo(g)
    \/ \E g \in Callers : RequestReturn(g)
    \/ \E g \in Callers : CallerReadLine(g)
    \/ \E g \in Callers : CallerClose(g)
    \/ \E g \in Listers : ListModels(g)
    \/ Ask
    \/ SaveFromMessages
    \/ SaveFromText

Spec == Init /\ [][Next]_vars

\* The Go scheduler runs every goroutine that can take a step, and every upstream
\* of the model ends.
FairSpec ==
    /\ Spec
    /\ \A r \in Reqs : WF_vars(HandlerStep(r))
    /\ \A r \in Reqs : WF_vars(ProducerStep(r))
    /\ \A r \in Reqs : WF_vars(InnerStep(r))
    /\ \A g \in SendingGoroutines : WF_vars(SendOnClosedPanic(g))

\* ----------------------------------------------------------------- claims

IsPrefix(a, b) == Len(a) <= Len(b) /\ SubSeq(b, 1, Len(a)) = a

\* The data frames among the body writes of a handler that were sent, in order.
DataFramesOf(fs) == SelectSeq(fs, LAMBDA f : f.kind = "data")

\* The frames one write per record of recs would give.
FramesFor(recs) == [i \in 1..Len(recs) |-> DataFrame(recs[i])]

\* The texts of a sequence of completions, concatenated in order.
RECURSIVE ConcatText(_)
ConcatText(cs) == IF cs = <<>> THEN <<>> ELSE Text(Head(cs)) \o ConcatText(Tail(cs))

\* The completions of the lines of body b that carry a payload, in order.
RECURSIVE PayloadCompletions(_, _)
PayloadCompletions(b, pos) ==
    IF pos > Len(b) THEN <<>>
    ELSE (IF HasPayload(b[pos]) THEN <<Completion(b[pos], pos, 0)>> ELSE <<>>)
         \o PayloadCompletions(b, pos + 1)

\* C1: an adapter whose run is over, by return or by panic, has sent exactly one
\* value on the error channel; no adapter ever sends two, and none sends
\* anything on either channel after its send on the error channel.
C1_ExactlyOneTerminal ==
    \A r \in Reqs :
        /\ errSends[r] <= 1
        /\ ~lateSend[r]
        /\ ppc[r] \in {"returned", "panicked"} => errSends[r] = 1

\* C2: the records a handler has received are a prefix of the records its adapter
\* derived, in the same order, and once the terminal signal has been received
\* they are all of them; this for the Together adapter's two hops as well.
C2_RecordsInOrder ==
    \A r \in Reqs :
        /\ IsPrefix(received[r], derived[r])
        /\ term[r] # "none" => received[r] = derived[r]

\* A Together stream of two records that has been relayed up to its io.EOF.
C2_Witness ==
    \E r \in Reqs :
        /\ akind[r] = "together"
        /\ term[r] = "io.EOF"
        /\ Len(received[r]) >= 2

\* C3: io.EOF is delivered as the terminal signal only when the upstream ended
\* normally; after a failed request, a failed read, a dropped connection or an
\* undecodable frame the terminal signal is another error.
C3_FailureIsNotEOF ==
    \A r \in Reqs : termSent[r] = "io.EOF" => ~upFailed[r]

\* C4: every producer goroutine that was started eventually returns, whatever
\* way the handler leaves its loop.
C4_ProducerReturns ==
    \A r \in Reqs : (ppc[r] # "idle") ~> (ppc[r] = "returned")

\* The handler has left its select loop: it is returning or has returned.
LeftLoop(r) == hpc[r] \in {"closeErr", "closeData", "returned"}

\* C5: the handler has written one data frame for every record it received (a
\* record counted once the handler is through with it), in the order received;
\* it has left its loop once it holds the terminal signal; the [DONE] frame is
\* written only as the last write and only when the terminal signal is io.EOF,
\* and is then written; the last write after a terminal signal is no data frame.
C5_FramePerRecordReceived ==
    \A r \in Reqs :
        /\ hpc[r] # "write" => DataFramesOf(frames[r]) = FramesFor(received[r])
        /\ term[r] # "none" => LeftLoop(r)
        /\ \A i \in 1..Len(frames[r]) :
              frames[r][i].kind = "done" => i = Len(frames[r]) /\ term[r] = "io.EOF"
        /\ term[r] = "io.EOF" =>
              frames[r] # <<>> /\ frames[r][Len(frames[r])] = DoneFrame
        /\ term[r] # "none" =>
              frames[r] # <<>> /\ frames[r][Len(frames[r])].kind # "data"

\* C6: once stream.Recv has returned an error that is not io.EOF, the OpenAI
\* handler has returned and has written no data frame after that result.
C6_StopsOnError ==
    \A i \in 1..Len(olog) :
        olog[i] = <<"recv", "error">> =>
            /\ opc = "returned"
            /\ \A j \in (i + 1)..Len(olog) : olog[j] # <<"write", "data">>

\* C7: when the ClaudeWeb body has been read to its end, every line of more than
\* 6 bytes has given one record on the stream channel (CreateChatMessageStream)
\* and its completion to the result (CreateChatMessage), the last line of a body
\* without a trailing newline included.
C7_EveryPayloadLineForwarded ==
    /\ \A r \in Reqs :
          akind[r] = "claudeweb" /\ termSent[r] = "io.EOF" =>
              derived[r] = PayloadCompletions(body[r], 1)
    /\ mpc = "done" /\ mResult.err = "nil" /\ mEnd = "io.EOF" =>
          mResult.completion = ConcatText(PayloadCompletions(mBody, 1))

\* C8: a chat operation issues at most one upstream request, also when the
\* upstream failed: by the time the error is delivered there has been just one.
C8_NoRetry ==
    /\ \A r \in Reqs : nReq[r] <= 1
    /\ cReq <= 1

\* An upstream failure delivered to the handler after a single request.
C8_Witness ==
    \E r \in Reqs : upFailed[r] /\ term[r] = "error" /\ nReq[r] = 1

\* The channels a request has made so far.
ChansOf(r) == {hData[r], hErr[r], iData[r], iErr[r]} \ {0}

\* Goroutines blocked in a send on channel c.
BlockedOn(c) == {g \in SendingGoroutines : PendingChan(g) = c}

\* C9: the channels of a request are distinct from each other and from those of
\* every other request; on the handler's channels only the request's producer
\* sends and only its handler receives, on the inner channels only the goroutine
\* started on them (ParseSSE for Together) sends and only the request's producer
\* receives, and at no moment are two goroutines in a send on one channel.
C9_SingleProducerSingleConsumer ==
    /\ \A r, q \in Reqs : r # q => ChansOf(r) \cap ChansOf(q) = {}
    /\ \A r \in Reqs :
          /\ hpc[r] # "idle" => hData[r] # hErr[r]
          /\ iData[r] # 0 => Cardinality(ChansOf(r)) = 4
          /\ \A c \in {hData[r], hErr[r]} \ {0} :
                chSend[c] \subseteq {Producer(r)} /\ chRecv[c] \subseteq {Handler(r)}
          /\ \A c \in {iData[r], iErr[r]} \ {0} :
                chSend[c] \subseteq {Parser(r)} /\ chRecv[c] \subseteq {Producer(r)}
    /\ \A c \in Chans : Cardinality(BlockedOn(c)) <= 1

\* Two requests served at once, a record and a terminal signal relayed for each.
C9_Witness ==
    \E r, q \in Reqs :
        /\ r # q
        /\ hpc[r] # "idle" /\ hpc[q] # "idle"
        /\ chSend[hData[r]] # {} /\ chSend[hData[q]] # {}
        /\ chRecv[hErr[r]] # {} /\ chRecv[hErr[q]] # {}

\* C10: no goroutine has panicked in a send on a closed channel.
C10_NoSendOnClosed ==
    \A r \in Reqs : ppc[r] # "panicked" /\ ipc[r] # "panicked"

\* C11: a streaming response that the handler ended on a terminal error other
\* than io.EOF, or on a record it failed to marshal or to write, has status 500.
C11_ErrorStatusIs500 ==
    \A r \in Reqs :
        (hpc[r] = "returned" /\ (hfail[r] # "none" \/ (term[r] # "none" /\ ~IsEOF(term[r]))))
            => status[r] = StatusInternalServerError

\* C12: for a body whose request succeeded, CreateChatMessage returns an error
\* exactly when CreateChatMessageStream ends with a terminal error other than
\* io.EOF, and otherwise the completion it returns is the concatenation, in
\* order, of the completions of the records the stream sends.
C12_MessageEqualsStream ==
    mpc = "done" /\ mEnd # "none" =>
        LET sr == CreateChatMessageStreamLoop(mBody, mEnd, 1, <<>>) IN
        /\ mResult.err # "nil" <=> ~IsEOF(sr.err)
        /\ mResult.err = "nil" => mResult.completion = ConcatText(sr.records)

\* Callers inside the section of request between Lock and the deferred Unlock.
InRequest == {g \in Callers : rpc[g] \in {"do", "return"}}

\* C13: at most one goroutine at a time is inside the section of request that
\* sets the headers and calls session.Do; a goroutine that has returned from
\* request, on any of its return paths, does not hold the mutex, in particular
\* not while it reads the body; the mutex is held only by a goroutine inside.
C13_MutexAroundDoOnly ==
    /\ Cardinality(InRequest) <= 1
    /\ \A g \in Callers : rpc[g] \in {"reading", "failed", "closed"} => mu # g
    /\ mu # 0 => mu \in InRequest

\* One caller is still reading its body, another has failed, and a third is
\* inside request.
C13_Witness ==
    \E g, h, k \in Callers :
        /\ rpc[g] = "reading" /\ nread[g] > 0
        /\ rpc[h] = "failed"
        /\ rpc[k] = "do" /\ mu = k

\* C14: ListModels contacts the server only when the cache file is absent; a
\* failed fetch does not keep a later call from fetching; and a call that began
\* after the server had answered a call with a non-empty list returns the names
\* of the chat models of that list.  (Runs in which os.Create or Encode failed
\* are left aside.)
C14_FailedFetchIsRetried ==
    /\ ~lFetchedWithCache
    /\ ~lFsFailed => ~lSkippedAfterFailure
    /\ \A g \in Listers :
          (~lFsFailed /\ lpc[g] = "idle" /\ lExpect[g] # <<>>) =>
              lResult[g] = ChatNames(lExpect[g])

\* C15: every call of Ask that is over has returned an answer or an error; none
\* has ended in a run-time panic.
C15_AskNeverPanics ==
    bpc = "done" => bResult \in {"answer", "error"}

\* The tokens of a list of texts, counted text by text.
RECURSIVE TotalTokens(_)
TotalTokens(texts) ==
    IF texts = <<>> THEN 0 ELSE Len(Head(texts)) + TotalTokens(Tail(texts))

\* C16: a call of SaveFromMessages or SaveFromText returns; it has called Save
\* once, with the model and with the sum of the token counts of its texts; the
\* database holds one record with that model and count when the transaction
\* committed and none otherwise; and the call returned nil exactly when the
\* transaction committed.
C16_TokenAccounting ==
    upc # "idle" =>
        /\ upc = "done"
        /\ uSaved = <<[model |-> uModel, usage |-> TotalTokens(uMessages)]>>
        /\ uErr = "nil" <=> uTxn = "committed"
        /\ uRecords = IF uTxn = "committed"
                      THEN <<LlmUsages(uModel, TotalTokens(uMessages))>>
                      ELSE <<>>

====
